---- MODULE Spec2Model ----
(***************************************************************************)
(* ESP integration API: the credential store, the request handlers of      *)
(* IntegrationController, the request validation of the POST route, the    *)
(* key helpers of ESPServiceFactory and the two provider adapters.         *)
(*                                                                         *)
(* Strings whose characters the code inspects (API keys, data centers) are *)
(* sequences of one-character strings.  A record id is the position of the *)
(* record in the store (records are never removed).  A Date is the value   *)
(* of the clock `now`.                                                     *)
(***************************************************************************)
EXTENDS Integers, Sequences, FiniteSets, TLC

VARIABLES store, now, mode, admitted, pc, req, resp, pre, deact, created, probe

vars == <<store, now, mode, admitted, pc, req, resp, pre, deact, created, probe>>

(* ------------------------------ bounds --------------------------------- *)

\* Largest number of records the store holds.
MaxRecords == 2

\* Largest clock value.
MaxClock == 2

\* Largest number of mailing lists an upstream account holds.
MaxLists == 1

\* Largest number of requests admitted under concurrent scheduling.
MaxConcRequests == 3

(* ------------------------- program constants --------------------------- *)

\* {32} in the Mailchimp key pattern.
HexLen == 32

\* {20,} in the GetResponse key pattern.
GetResponseMinLen == 20

\* isLength({ min: 10 }) of the request validation.
MinKeyLen == 10

\* count=Math.min(totalItems, 1000) in MailchimpService.getLists.
MailchimpMaxCount == 1000

(* ------------------------------ strings -------------------------------- *)

Slots == {"r1", "r2"}

\* JavaScript null / undefined.
Null == <<"null">>

HexChars ==
    {"a", "b", "c", "d", "e", "f", "A", "B", "C", "D", "E", "F",
     "0", "1", "2", "3", "4", "5", "6", "7", "8", "9"}

Digits == {"0", "1", "2", "3", "4", "5", "6", "7", "8", "9"}

AlnumChars == HexChars \cup {"g", "s", "u", "z", "G", "Z"}

Rep(c, n) == [i \in 1..n |-> c]

Min(a, b) == IF a <= b THEN a ELSE b

\* String.prototype.split('-'): the sequence of the parts between separators.
RECURSIVE Split(_, _)
Split(s, sep) ==
    IF \A i \in 1..Len(s) : s[i] # sep
    THEN <<s>>
    ELSE LET k == CHOOSE i \in 1..Len(s) :
                      s[i] = sep /\ \A j \in 1..(i - 1) : s[j] # sep
         IN  <<SubSeq(s, 1, k - 1)>> \o Split(SubSeq(s, k + 1, Len(s)), sep)

\* validator's trim(): strips leading and trailing whitespace.
RECURSIVE Trim(_)
Trim(s) ==
    IF Len(s) = 0 THEN s
    ELSE IF s[1] = " " THEN Trim(Tail(s))
    ELSE IF s[Len(s)] = " " THEN Trim(SubSeq(s, 1, Len(s) - 1))
    ELSE s

\* JavaScript truthiness of a string | null | undefined value.
Truthy(s) == s # Null /\ Len(s) > 0

(* ------------------------- ESPServiceFactory --------------------------- *)

Providers == {"mailchimp", "getresponse"}

\* Mutant of extractDataCenterFromMailchimpKey: more than two parts are accepted.
extractDataCenterFromMailchimpKey_AtLeastTwo(apiKey) ==
    LET parts == Split(apiKey, "-")
    IN  IF Len(parts) >= 2 THEN parts[2] ELSE Null

extractDataCenterFromMailchimpKey(apiKey) ==
    LET parts == Split(apiKey, "-")
    IN  IF Len(parts) = 2 THEN parts[2] ELSE Null

\* /^[a-fA-F0-9]{32}-us\d+$/
MailchimpKeyPattern(k) ==
    /\ Len(k) >= HexLen + 4
    /\ \A i \in 1..HexLen : k[i] \in HexChars
    /\ k[HexLen + 1] = "-"
    /\ k[HexLen + 2] = "u"
    /\ k[HexLen + 3] = "s"
    /\ \A i \in (HexLen + 4)..Len(k) : k[i] \in Digits

\* /^[a-zA-Z0-9]{20,}$/
GetResponseKeyPattern(k) ==
    /\ Len(k) >= GetResponseMinLen
    /\ \A i \in 1..Len(k) : k[i] \in AlnumChars

validateApiKeyFormat(provider, apiKey) ==
    CASE provider = "mailchimp" -> MailchimpKeyPattern(apiKey)
      [] provider = "getresponse" -> GetResponseKeyPattern(apiKey)
      [] OTHER -> FALSE

(* ------------------------------ API keys ------------------------------- *)

Hex32 == [i \in 1..HexLen |-> IF i % 3 = 0 THEN "F" ELSE IF i % 3 = 1 THEN "a" ELSE "0"]

KeyMcA == Hex32 \o <<"-", "u", "s", "1", "0">>
KeyMcB == Hex32 \o <<"-", "u", "s", "2">>
KeyGr == Rep("z", GetResponseMinLen)

\* Keys a request body can carry; Null is a body without apiKey.
SampleKeys ==
    { KeyMcA, KeyMcB, KeyGr,
      KeyMcA \o <<" ">>,                                   \* trailing blank
      Rep("a", HexLen - 1) \o <<"-", "u", "s", "1", "0">>, \* 31 hex digits
      Rep("g", HexLen) \o <<"-", "u", "s", "1", "0">>,     \* not hexadecimal
      Hex32 \o <<"-", "u", "s">>,                          \* no digits
      Hex32 \o <<"-", "e", "u", "1">>,                     \* region not usNN
      Hex32 \o <<"-", "u", "s", "1", "-", "0">>,           \* two separators
      Hex32 \o <<"-">>,                                    \* empty region
      Rep("z", GetResponseMinLen - 1),                     \* 19 characters
      Rep("z", GetResponseMinLen - 1) \o <<"_">>,          \* not alphanumeric
      <<"s", "h", "o", "r", "t">>,
      Null }

\* Values of body.provider ("undefined": the field is missing).
BodyProviders == Providers \cup {"invalid", "undefined"}

\* The keys requests carry under each scheduling: all of them when requests
\* run one at a time, the well-formed ones and a missing one when they interleave.
KeysOf(m) == IF m = "seq" THEN SampleKeys ELSE {KeyMcA, KeyMcB, KeyGr, Null}

\* The values of body.provider under each scheduling.
BodyProvidersOf(m) == IF m = "seq" THEN BodyProviders ELSE Providers \cup {"invalid"}


\* Values of query.provider ("undefined": the parameter is missing).
QueryProviders == Providers \cup {"invalid", "undefined"}

(* --------------------------- error handling ---------------------------- *)

AppError(message, statusCode, code) ==
    [name |-> "AppError", message |-> message, statusCode |-> statusCode, code |-> code]

\* An error that is no AppError (a driver error, a TypeError, a CastError).
RawError(name, message) ==
    [name |-> name, message |-> message, statusCode |-> 0, code |-> ""]

\* The uniform error envelope.
errorHandler(err) ==
    LET r == CASE err.name = "AppError" ->
                     [statusCode |-> err.statusCode, code |-> err.code, message |-> err.message]
               [] err.name = "ValidationError" ->
                     [statusCode |-> 400, code |-> "VALIDATION_ERROR", message |-> "Validation failed"]
               [] err.name = "CastError" ->
                     [statusCode |-> 400, code |-> "INVALID_ID", message |-> "Invalid ID format"]
               [] OTHER ->
                     [statusCode |-> 500, code |-> "INTERNAL_ERROR", message |-> "Internal server error"]
    IN  [success |-> FALSE, status |-> r.statusCode, code |-> r.code,
         message |-> r.message, data |-> <<>>]

\* res.status(status).json({ success: true, data })
Success(status, data) ==
    [success |-> TRUE, status |-> status, code |-> "", message |-> "", data |-> data]

NoResp == [success |-> FALSE, status |-> 0, code |-> "", message |-> "", data |-> <<>>]

(* ---------------------------- the adapters ----------------------------- *)

\* What the upstream provider does with one HTTP request:
\*   kind "ok"        a 2xx response with the expected JSON body
\*   kind "okNull"    a 2xx response whose body is JSON null
\*   kind "status"    a non-2xx response with that status (and maybe a message)
\*   kind "timeout"   no response within the 30 s timeout (ECONNABORTED)
\*   kind "noresponse" a connection-level failure
Upstream(kind, status, msg) == [kind |-> kind, status |-> status, msg |-> msg]

Outcomes ==
    { Upstream("ok", 200, ""), Upstream("okNull", 200, ""),
      Upstream("status", 400, ""), Upstream("status", 401, ""),
      Upstream("status", 404, ""), Upstream("status", 429, ""),
      Upstream("status", 500, ""), Upstream("status", 500, "upstream message"),
      Upstream("timeout", 0, ""), Upstream("noresponse", 0, "") }

\* The upstream outcomes the handlers meet under each scheduling.
OutcomesOf(m) ==
    IF m = "seq"
    THEN { Upstream("ok", 200, ""), Upstream("okNull", 200, ""),
           Upstream("status", 401, ""), Upstream("status", 500, "upstream message"),
           Upstream("timeout", 0, ""), Upstream("noresponse", 0, "") }
    ELSE {Upstream("ok", 200, ""), Upstream("status", 401, "")}

\* Mutant of MailchimpHandleApiError: the case of status 429 is missing.
MailchimpHandleApiError_No429(out) ==
    IF out.kind = "status"
    THEN CASE out.status = 401 ->
                AppError("Invalid Mailchimp API key or insufficient permissions", 401,
                         "MAILCHIMP_UNAUTHORIZED")
           [] out.status = 404 ->
                AppError("Mailchimp resource not found", 404, "MAILCHIMP_NOT_FOUND")
           [] OTHER ->
                AppError(IF out.msg # "" THEN out.msg ELSE "Mailchimp API error",
                         out.status, "MAILCHIMP_API_ERROR")
    ELSE IF out.kind = "timeout"
    THEN AppError("Mailchimp API request timeout", 408, "MAILCHIMP_TIMEOUT")
    ELSE AppError("Mailchimp service unavailable", 503, "MAILCHIMP_SERVICE_ERROR")

MailchimpHandleApiError(out) ==
    IF out.kind = "status"
    THEN CASE out.status = 401 ->
                AppError("Invalid Mailchimp API key or insufficient permissions", 401,
                         "MAILCHIMP_UNAUTHORIZED")
           [] out.status = 404 ->
                AppError("Mailchimp resource not found", 404, "MAILCHIMP_NOT_FOUND")
           [] out.status = 429 ->
                AppError("Mailchimp API rate limit exceeded", 429, "MAILCHIMP_RATE_LIMIT")
           [] OTHER ->
                AppError(IF out.msg # "" THEN out.msg ELSE "Mailchimp API error",
                         out.status, "MAILCHIMP_API_ERROR")
    ELSE IF out.kind = "timeout"
    THEN AppError("Mailchimp API request timeout", 408, "MAILCHIMP_TIMEOUT")
    ELSE AppError("Mailchimp service unavailable", 503, "MAILCHIMP_SERVICE_ERROR")

GetResponseHandleApiError(out) ==
    IF out.kind = "status"
    THEN CASE out.status = 401 ->
                AppError("Invalid GetResponse API key or insufficient permissions", 401,
                         "GETRESPONSE_UNAUTHORIZED")
           [] out.status = 404 ->
                AppError("GetResponse resource not found", 404, "GETRESPONSE_NOT_FOUND")
           [] out.status = 429 ->
                AppError("GetResponse API rate limit exceeded", 429, "GETRESPONSE_RATE_LIMIT")
           [] out.status = 400 ->
                AppError(IF out.msg # "" THEN out.msg ELSE "Bad request to GetResponse API",
                         400, "GETRESPONSE_BAD_REQUEST")
           [] OTHER ->
                AppError(IF out.msg # "" THEN out.msg ELSE "GetResponse API error",
                         out.status, "GETRESPONSE_API_ERROR")
    ELSE IF out.kind = "timeout"
    THEN AppError("GetResponse API request timeout", 408, "GETRESPONSE_TIMEOUT")
    ELSE AppError("GetResponse service unavailable", 503, "GETRESPONSE_SERVICE_ERROR")

handleApiError(provider, out) ==
    IF provider = "mailchimp" THEN MailchimpHandleApiError(out)
    ELSE GetResponseHandleApiError(out)

\* apiClient.get: the response interceptor rejects with handleApiError(error);
\* reading a field of a null body raises a TypeError.
ApiGet(provider, out) ==
    CASE out.kind = "ok" -> [ok |-> TRUE, err |-> RawError("none", "")]
      [] out.kind = "okNull" ->
            [ok |-> FALSE, err |-> RawError("TypeError", "Cannot read properties of null")]
      [] OTHER -> [ok |-> FALSE, err |-> handleApiError(provider, out)]

NoVR == [isValid |-> FALSE, provider |-> "none", error |-> "", accountInfo |-> "undefined"]

\* Mutant of validateConnection: an error that is no AppError gives no text.
validateConnection_NoFallbackText(provider, out) ==
    LET g == ApiGet(provider, out)
    IN  IF g.ok
        THEN [isValid |-> TRUE, provider |-> provider, error |-> "",
              accountInfo |-> "accountInfo"]
        ELSE [isValid |-> FALSE, provider |-> provider,
              error |-> IF g.err.name = "AppError" THEN g.err.message ELSE "",
              accountInfo |-> "undefined"]

validateConnection(provider, out) ==
    LET g == ApiGet(provider, out)
    IN  IF g.ok
        THEN [isValid |-> TRUE, provider |-> provider, error |-> "",
              accountInfo |-> "accountInfo"]
        ELSE [isValid |-> FALSE, provider |-> provider,
              error |-> IF g.err.name = "AppError" THEN g.err.message
                        ELSE "Connection validation failed",
              accountInfo |-> "undefined"]

\* MailchimpService.getLists: the count request, then one request for
\* min(total_items, 1000) lists; n is the number of lists of the account.
MailchimpGetLists(out1, out2, n) ==
    LET g1 == ApiGet("mailchimp", out1)
        g2 == ApiGet("mailchimp", out2)
    IN  IF ~g1.ok THEN [ok |-> FALSE, err |-> g1.err, lists |-> <<>>]
        ELSE IF ~g2.ok THEN [ok |-> FALSE, err |-> g2.err, lists |-> <<>>]
        ELSE [ok |-> TRUE, err |-> g2.err,
              lists |-> [i \in 1..Min(Min(n, MailchimpMaxCount), n) |-> [id |-> i]]]

\* GetResponseService.getLists: one request for /campaigns.
GetResponseGetLists(out1, n) ==
    LET g1 == ApiGet("getresponse", out1)
    IN  IF ~g1.ok THEN [ok |-> FALSE, err |-> g1.err, lists |-> <<>>]
        ELSE [ok |-> TRUE, err |-> g1.err, lists |-> [i \in 1..n |-> [id |-> i]]]

\* MailchimpService.getListById / GetResponseService.getListById: one
\* request; the fields of the list are read from the body.
MailchimpGetListById(out) ==
    LET g == ApiGet("mailchimp", out)
    IN  [ok |-> g.ok, err |-> g.err]

GetResponseGetListById(out) ==
    LET g == ApiGet("getresponse", out)
    IN  [ok |-> g.ok, err |-> g.err]

getListById(provider, out) ==
    IF provider = "mailchimp" THEN MailchimpGetListById(out)
    ELSE GetResponseGetListById(out)

getLists(provider, out1, out2, n) ==
    IF provider = "mailchimp" THEN MailchimpGetLists(out1, out2, n)
    ELSE GetResponseGetLists(out1, n)

\* ESPServiceFactory.createService, with the constructor of the adapter:
\* MailchimpService takes the data center from the key when none is given.
createService(provider, apiKey, dataCenter) ==
    CASE provider = "mailchimp" ->
            IF Truthy(dataCenter) \/ Len(Split(apiKey, "-")) = 2
            THEN [ok |-> TRUE, err |-> RawError("none", "")]
            ELSE [ok |-> FALSE,
                  err |-> AppError("Invalid Mailchimp API key format. Expected format: xxxxxxxx-usXX",
                                   400, "INVALID_API_KEY_FORMAT")]
      [] provider = "getresponse" -> [ok |-> TRUE, err |-> RawError("none", "")]
      [] OTHER ->
            [ok |-> FALSE,
             err |-> AppError("Unsupported ESP provider", 400, "UNSUPPORTED_PROVIDER")]

(* ------------------------- request validation -------------------------- *)

\* validateESPIntegration + handleValidationErrors of POST /esp: the checks
\* of body.provider and body.apiKey; trim() replaces body.apiKey by the
\* trimmed value, which is what the controller then reads.
\* Mutant of validateESPIntegration: the provider is not looked at.
validateESPIntegration_AnyProvider(provider, apiKey) ==
    LET isString == apiKey # Null
        trimmed == IF isString THEN Trim(apiKey) ELSE apiKey
    IN  [ok |-> isString /\ Len(trimmed) >= MinKeyLen,
         apiKey |-> trimmed]

validateESPIntegration(provider, apiKey) ==
    LET isString == apiKey # Null
        trimmed == IF isString THEN Trim(apiKey) ELSE apiKey
    IN  [ok |-> /\ provider \in {"mailchimp", "getresponse"}
                /\ isString
                /\ Len(trimmed) >= MinKeyLen,
         apiKey |-> trimmed]

(* ------------------------------ the store ------------------------------ *)

\* lastVerified of a record that was never verified.
Unset == 0

Record(provider, apiKey, dataCenter, isActive, lastVerified) ==
    [provider |-> provider, apiKey |-> apiKey, dataCenter |-> dataCenter,
     isActive |-> isActive, lastVerified |-> lastVerified]

Ids == 1..Len(store)

\* A document as a query returns it; apiKey is select: false.
LoadDoc(i, withKey) ==
    [id |-> i, provider |-> store[i].provider,
     apiKey |-> IF withKey THEN store[i].apiKey ELSE Null,
     dataCenter |-> store[i].dataCenter, isActive |-> store[i].isActive,
     lastVerified |-> store[i].lastVerified]

NoDoc ==
    [id |-> 0, provider |-> "none", apiKey |-> Null, dataCenter |-> Null,
     isActive |-> FALSE, lastVerified |-> Unset]

\* The schema's toJSON transform: the serialized document has no apiKey.
toJSON(doc) ==
    [id |-> doc.id, provider |-> doc.provider, dataCenter |-> doc.dataCenter,
     isActive |-> doc.isActive, lastVerified |-> doc.lastVerified]

\* Mutant of ActiveIds: the filter lacks isActive.
ActiveIds_IgnoresActive(provider) ==
    {i \in Ids : provider = "undefined" \/ store[i].provider = provider}

\* find({ isActive: true, provider? }): the ids, in insertion order.
ActiveIds(provider) ==
    {i \in Ids : store[i].isActive /\ (provider = "undefined" \/ store[i].provider = provider)}

RECURSIVE SortedSeq(_)
SortedSeq(S) ==
    IF S = {} THEN <<>>
    ELSE LET m == CHOOSE x \in S : \A y \in S : x <= y
         IN  <<m>> \o SortedSeq(S \ {m})

\* :id of a route: a well-formed ObjectId (oid) or a string findById cannot cast.
IdArg(wf, oid) == [wf |-> wf, oid |-> oid]

IdArgs == {IdArg(TRUE, i) : i \in 1..(MaxRecords + 1)} \cup {IdArg(FALSE, 1)}

(* ---------------------------- request state ---------------------------- *)

EmptyReq ==
    [op |-> "none", provider |-> "none", rawKey |-> Null, apiKey |-> Null,
     dataCenter |-> Null, idArg |-> IdArg(FALSE, 1), doc |-> NoDoc, vr |-> NoVR,
     found |-> <<>>, idx |-> 0, allLists |-> <<>>, outs |-> <<>>,
     calls |-> {}, adapters |-> 0, deactAtStart |-> {}, prevCreated |-> 0]

\* Sequential scheduling ("seq") admits a request only when no other is in
\* flight; concurrent scheduling ("conc") admits it at any time.
\* The second slot is taken only while the first is busy.
CanStart(r) ==
    /\ pc[r] = "idle"
    /\ IF mode = "seq" THEN r = "r1" /\ pc["r2"] = "idle"
       ELSE admitted < MaxConcRequests /\ (r = "r2" => pc["r1"] # "idle")

\* The count of the requests admitted under concurrent scheduling.
Admit == admitted' = IF mode = "seq" THEN admitted ELSE admitted + 1

\* The store as the request found it, kept while requests run one at a time.
Snapshot == IF mode = "seq" THEN store ELSE pre

Call(id, provider, apiKey) == [id |-> id, provider |-> provider, apiKey |-> apiKey]

\* No adapter function has been applied on its own.
NoProbe == [fn |-> "none"]

InitWith(m) ==
    /\ store = <<>>
    /\ now = 1
    /\ mode = m
    /\ admitted = 0
    /\ pc = [r \in Slots |-> "idle"]
    /\ req = [r \in Slots |-> EmptyReq]
    /\ resp = [r \in Slots |-> NoResp]
    /\ pre = <<>>
    /\ deact = {}
    /\ created = [p \in Providers |-> 0]
    /\ probe = NoProbe

Init == InitWith("seq")

ConcInit == InitWith("conc")

\* The clock advances.
Tick ==
    /\ now < MaxClock
    /\ now' = now + 1
    /\ UNCHANGED <<store, mode, probe, admitted, pc, req, resp, pre, deact, created>>

\* The response is delivered and the request is over; the snapshot goes with it.
Finish(r) ==
    /\ pc[r] = "done"
    /\ pc' = [pc EXCEPT ![r] = "idle"]
    /\ req' = [req EXCEPT ![r] = EmptyReq]
    /\ resp' = [resp EXCEPT ![r] = NoResp]
    /\ pre' = <<>>
    /\ UNCHANGED <<store, now, mode, probe, admitted, deact, created>>

(* ----------------- POST /esp: createESPIntegration --------------------- *)

\* Mutant of CreateChecks: validateApiKeyFormat is not consulted.
CreateChecks_NoFormatCheck(p, k) ==
    LET mw == validateESPIntegration(p, k)
        key == mw.apiKey
        ex == IF p = "mailchimp" THEN extractDataCenterFromMailchimpKey(key) ELSE Null
        dc == IF Truthy(ex) THEN ex ELSE Null
        svc == createService(p, key, dc)
        r0 == [EmptyReq EXCEPT !.op = "create", !.provider = p, !.rawKey = k,
                               !.apiKey = key, !.deactAtStart = deact,
                               !.prevCreated = IF p \in Providers THEN created[p] ELSE 0]
        r1 == [r0 EXCEPT !.dataCenter = dc, !.adapters = 1]
        fail(e, q) == [ok |-> FALSE, req |-> q, err |-> e]
    IN  IF ~mw.ok
        THEN fail(AppError("Validation failed", 400, "VALIDATION_ERROR"), r0)
        ELSE IF p = "mailchimp" /\ dc = Null
        THEN fail(AppError("Invalid Mailchimp API key format. Expected format: xxxxxxxx-usXX",
                           400, "INVALID_MAILCHIMP_KEY"), r0)
        ELSE IF ~svc.ok
        THEN fail(svc.err, r1)
        ELSE [ok |-> TRUE, req |-> r1, err |-> RawError("none", "")]

\* Request validation, then the controller up to the construction of the
\* adapter (lines 11-36): the request as it stands, and the error if any.
CreateChecks(p, k) ==
    LET mw == validateESPIntegration(p, k)
        key == mw.apiKey
        ex == IF p = "mailchimp" THEN extractDataCenterFromMailchimpKey(key) ELSE Null
        dc == IF Truthy(ex) THEN ex ELSE Null
        svc == createService(p, key, dc)
        r0 == [EmptyReq EXCEPT !.op = "create", !.provider = p, !.rawKey = k,
                               !.apiKey = key, !.deactAtStart = deact,
                               !.prevCreated = IF p \in Providers THEN created[p] ELSE 0]
        r1 == [r0 EXCEPT !.dataCenter = dc, !.adapters = 1]
        fail(e, q) == [ok |-> FALSE, req |-> q, err |-> e]
    IN  IF ~mw.ok
        THEN fail(AppError("Validation failed", 400, "VALIDATION_ERROR"), r0)
        ELSE IF p = "mailchimp" /\ dc = Null
        THEN fail(AppError("Invalid Mailchimp API key format. Expected format: xxxxxxxx-usXX",
                           400, "INVALID_MAILCHIMP_KEY"), r0)
        ELSE IF ~validateApiKeyFormat(p, key)
        THEN fail(AppError("Invalid API key format", 400, "INVALID_API_KEY_FORMAT"), r0)
        ELSE IF ~svc.ok
        THEN fail(svc.err, r1)
        ELSE [ok |-> TRUE, req |-> r1, err |-> RawError("none", "")]

\* Mutant of CreateConnect: the result of validateConnection is not checked.
CreateConnect_IgnoresInvalid(q, out) ==
    LET vr == validateConnection(q.provider, out)
        q1 == [q EXCEPT !.calls = {Call(0, q.provider, q.apiKey)}, !.vr = vr]
    IN  [pc |-> "create_find", req |-> q1, resp |-> NoResp]

\* validateConnection and the check of its result (lines 37-45).
CreateConnect(q, out) ==
    LET vr == validateConnection(q.provider, out)
        q1 == [q EXCEPT !.calls = {Call(0, q.provider, q.apiKey)}, !.vr = vr]
    IN  IF ~vr.isValid
        THEN [pc |-> "done", req |-> q1,
              resp |-> errorHandler(AppError(IF vr.error # "" THEN vr.error
                                             ELSE "Failed to validate ESP connection",
                                             401, "ESP_CONNECTION_FAILED"))]
        ELSE [pc |-> "create_find", req |-> q1, resp |-> NoResp]

CreateValidate(r) ==
    /\ CanStart(r)
    /\ \E p \in BodyProvidersOf(mode), k \in KeysOf(mode) :
          LET c == CreateChecks(p, k)
          IN  IF ~c.ok
              THEN /\ pc' = [pc EXCEPT ![r] = "done"]
                   /\ req' = [req EXCEPT ![r] = c.req]
                   /\ resp' = [resp EXCEPT ![r] = errorHandler(c.err)]
              ELSE \E out \in OutcomesOf(mode) :
                      LET s1 == CreateConnect(c.req, out)
                      IN  /\ pc' = [pc EXCEPT ![r] = s1.pc]
                          /\ req' = [req EXCEPT ![r] = s1.req]
                          /\ resp' = [resp EXCEPT ![r] = s1.resp]
    /\ pre' = Snapshot
    /\ Admit
    /\ UNCHANGED <<store, now, mode, probe, deact, created>>

\* findOne({ provider, isActive: true }) (lines 47-51); which of several
\* matching documents it returns is not specified.
CreateFind(r) ==
    /\ pc[r] = "create_find"
    /\ LET match == ActiveIds(req[r].provider)
       IN  \/ /\ match = {}
              /\ req' = [req EXCEPT ![r].doc = NoDoc]
           \/ \E i \in match : req' = [req EXCEPT ![r].doc = LoadDoc(i, FALSE)]
    /\ pc' = [pc EXCEPT ![r] = "create_save"]
    /\ UNCHANGED <<store, now, mode, probe, admitted, resp, pre, deact, created>>

\* The response body of createESPIntegration (lines 84-100).
\* Mutant of CreateResponse: the response also carries the record's key.
CreateResponse_WithKey(doc, vr) ==
    [id |-> doc.id, provider |-> doc.provider, apiKey |-> doc.apiKey,
     dataCenter |-> doc.dataCenter, isActive |-> doc.isActive,
     lastVerified |-> doc.lastVerified, accountInfo |-> vr.accountInfo]

CreateResponse(doc, vr) ==
    [id |-> doc.id, provider |-> doc.provider, dataCenter |-> doc.dataCenter,
     isActive |-> doc.isActive, lastVerified |-> doc.lastVerified,
     accountInfo |-> vr.accountInfo]

\* Mutant of Existing: the lookup result is ignored, every save inserts.
Existing_Never(doc) == FALSE

\* if (existingIntegration) (line 55).
Existing(doc) == doc.id # 0

\* The existing document with the three assignments of lines 57-59.
UpdatedDoc(q, t) ==
    [q.doc EXCEPT !.apiKey = q.apiKey, !.dataCenter = q.dataCenter, !.lastVerified = t]

\* Mutant of NewDoc: the new document carries no verification timestamp.
NewDoc_Unverified(q, t, id) ==
    [id |-> id, provider |-> q.provider, apiKey |-> q.apiKey,
     dataCenter |-> q.dataCenter, isActive |-> TRUE, lastVerified |-> Unset]

\* new ESPIntegrationModel({...}) (lines 68-74); id: the id of the new document.
NewDoc(q, t, id) ==
    [id |-> id, provider |-> q.provider, apiKey |-> q.apiKey,
     dataCenter |-> q.dataCenter, isActive |-> TRUE, lastVerified |-> t]

\* Mutant of CreateStatus: every successful save answers 201.
CreateStatus_Always201(existing) == 201

\* res.status(existingIntegration ? 200 : 201) (line 102).
CreateStatus(existing) == IF existing THEN 200 ELSE 201

\* save() of an existing document writes the modified paths of that one
\* document; save() of a new one inserts it.  saveOk = FALSE: the driver
\* rejects the write.  Lines 53-102.
\* Mutant of SaveModified: every record of the document's provider is written.
SaveModified_AllOfProvider(s, doc) ==
    [i \in 1..Len(s) |->
        IF s[i].provider = doc.provider
        THEN [s[i] EXCEPT !.apiKey = doc.apiKey, !.dataCenter = doc.dataCenter,
                          !.lastVerified = doc.lastVerified]
        ELSE s[i]]

\* existingIntegration.save(): the three assigned paths of that one
\* document are written.
SaveModified(s, doc) ==
    [s EXCEPT ![doc.id].apiKey = doc.apiKey,
              ![doc.id].dataCenter = doc.dataCenter,
              ![doc.id].lastVerified = doc.lastVerified]

CreateSave(r) ==
    /\ pc[r] = "create_save"
    /\ \E saveOk \in BOOLEAN :
          LET q == req[r]
              existing == Existing(q.doc)
              doc == IF existing THEN UpdatedDoc(q, now)
                     ELSE NewDoc(q, now, Len(store) + 1)
          IN  IF ~saveOk
              THEN /\ resp' = [resp EXCEPT ![r] = errorHandler(RawError("MongoError", "write failed"))]
                   /\ UNCHANGED <<store, created>>
              ELSE /\ IF existing
                      THEN store' = SaveModified(store, doc)
                      ELSE /\ Len(store) < MaxRecords
                           /\ store' = Append(store, Record(doc.provider, doc.apiKey,
                                                            doc.dataCenter, doc.isActive,
                                                            doc.lastVerified))
                   /\ resp' = [resp EXCEPT ![r] =
                                 Success(CreateStatus(existing), CreateResponse(doc, q.vr))]
                   /\ created' = [created EXCEPT ![q.provider] = doc.id]
    /\ pc' = [pc EXCEPT ![r] = "done"]
    /\ UNCHANGED <<now, mode, probe, admitted, req, pre, deact>>

(* ------------------- GET /esp/lists: getESPLists ----------------------- *)

\* The response body of getESPLists (lines 176-186).
ListsResponse(allLists) ==
    [lists |-> allLists, totalCount |-> Len(allLists),
     providers |-> {allLists[i].provider : i \in 1..Len(allLists)}]

\* The filter, the query and the empty check (lines 107-130).
\* Mutant of NoIntegrations: an empty selection is not looked for.
NoIntegrations_Never(ids) == FALSE

\* integrations.length === 0
NoIntegrations(ids) == Len(ids) = 0

ListsFind(r) ==
    /\ CanStart(r)
    /\ \E p \in QueryProviders :
          LET r0 == [EmptyReq EXCEPT !.op = "lists", !.provider = p, !.deactAtStart = deact]
              ids == SortedSeq(ActiveIds(p))
          IN  IF p # "undefined" /\ p \notin {"mailchimp", "getresponse"}
              THEN /\ req' = [req EXCEPT ![r] = r0]
                   /\ pc' = [pc EXCEPT ![r] = "done"]
                   /\ resp' = [resp EXCEPT ![r] = errorHandler(
                         AppError("Invalid provider. Must be mailchimp or getresponse",
                                  400, "INVALID_PROVIDER"))]
              ELSE IF NoIntegrations(ids)
              THEN /\ req' = [req EXCEPT ![r] = r0]
                   /\ pc' = [pc EXCEPT ![r] = "done"]
                   /\ resp' = [resp EXCEPT ![r] = errorHandler(
                         AppError("No active integrations found", 404, "NO_INTEGRATIONS"))]
              ELSE /\ req' = [req EXCEPT ![r] =
                                [r0 EXCEPT !.found = [j \in 1..Len(ids) |-> LoadDoc(ids[j], TRUE)],
                                           !.idx = 1]]
                   /\ pc' = [pc EXCEPT ![r] = "lists_fetch"]
                   /\ resp' = [resp EXCEPT ![r] = NoResp]
    /\ pre' = Snapshot
    /\ Admit
    /\ UNCHANGED <<store, now, mode, probe, deact, created>>

\* One entry of allLists: a list of an integration, or its error marker.
ListEntry(list, doc) ==
    [id |-> list.id, provider |-> doc.provider, integrationId |-> doc.id, error |-> ""]

ErrorMarker(doc) ==
    [id |-> 0, provider |-> doc.provider, integrationId |-> doc.id,
     error |-> "Failed to fetch lists from this provider"]

\* Mutant of FetchEntries: a failing integration adds nothing.
FetchEntries_DropsFailure(doc, out1, out2, n) ==
    LET svc == createService(doc.provider, doc.apiKey, doc.dataCenter)
        res == getLists(doc.provider, out1, out2, n)
    IN  IF svc.ok /\ res.ok
        THEN [j \in 1..Len(res.lists) |-> ListEntry(res.lists[j], doc)]
        ELSE <<>>

\* What one iteration of the loop adds to allLists (lines 136-173).
FetchEntries(doc, out1, out2, n) ==
    LET svc == createService(doc.provider, doc.apiKey, doc.dataCenter)
        res == getLists(doc.provider, out1, out2, n)
    IN  IF svc.ok /\ res.ok
        THEN [j \in 1..Len(res.lists) |-> ListEntry(res.lists[j], doc)]
        ELSE <<ErrorMarker(doc)>>

\* One iteration of the loop over the integrations, and after the last one
\* the response (lines 135-188).  n: the lists of the upstream account.
ListsFetch(r) ==
    /\ pc[r] = "lists_fetch"
    /\ \E out1 \in OutcomesOf(mode), n \in 0..MaxLists,
          out2 \in IF req[r].found[req[r].idx].provider = "mailchimp"
                   THEN OutcomesOf(mode) ELSE {Upstream("ok", 200, "")} :
          LET q == req[r]
              doc == q.found[q.idx]
              svc == createService(doc.provider, doc.apiKey, doc.dataCenter)
              res == getLists(doc.provider, out1, out2, n)
              all == q.allLists \o FetchEntries(doc, out1, out2, n)
              q1 == [q EXCEPT !.allLists = all,
                              !.outs = Append(q.outs, [ok |-> svc.ok /\ res.ok,
                                                       n |-> Len(res.lists)]),
                              !.adapters = q.adapters + 1,
                              !.calls = IF svc.ok
                                        THEN q.calls \cup {Call(doc.id, doc.provider, doc.apiKey)}
                                        ELSE q.calls,
                              !.idx = q.idx + 1]
          IN  /\ req' = [req EXCEPT ![r] = q1]
              /\ IF q.idx = Len(q.found)
                 THEN /\ pc' = [pc EXCEPT ![r] = "done"]
                      /\ resp' = [resp EXCEPT ![r] = Success(200, ListsResponse(all))]
                 ELSE UNCHANGED <<pc, resp>>
    /\ UNCHANGED <<store, now, mode, probe, admitted, pre, deact, created>>

(* --------------------- GET /esp: getIntegrations ----------------------- *)

\* Lines 192-207.
GetIntegrations(r) ==
    /\ CanStart(r)
    /\ LET ids == SortedSeq(ActiveIds("undefined"))
           integrations == [j \in 1..Len(ids) |-> toJSON(LoadDoc(ids[j], FALSE))]
       IN  /\ req' = [req EXCEPT ![r] = [EmptyReq EXCEPT !.op = "list", !.deactAtStart = deact]]
           /\ resp' = [resp EXCEPT ![r] =
                         Success(200, [integrations |-> integrations,
                                       totalCount |-> Len(integrations)])]
    /\ pc' = [pc EXCEPT ![r] = "done"]
    /\ pre' = Snapshot
    /\ Admit
    /\ UNCHANGED <<store, now, mode, probe, deact, created>>

(* ------------------- DELETE /esp/:id: deleteIntegration ---------------- *)

\* findById(id) and the missing check (lines 211-220).
DeleteFind(r) ==
    /\ CanStart(r)
    /\ \E a \in IdArgs :
          LET r0 == [EmptyReq EXCEPT !.op = "delete", !.idArg = a, !.deactAtStart = deact]
          IN  IF ~a.wf
              THEN /\ req' = [req EXCEPT ![r] = r0]
                   /\ pc' = [pc EXCEPT ![r] = "done"]
                   /\ resp' = [resp EXCEPT ![r] =
                                 errorHandler(RawError("CastError", "Cast to ObjectId failed"))]
              ELSE IF a.oid \notin Ids
              THEN /\ req' = [req EXCEPT ![r] = r0]
                   /\ pc' = [pc EXCEPT ![r] = "done"]
                   /\ resp' = [resp EXCEPT ![r] = errorHandler(
                         AppError("Integration not found", 404, "INTEGRATION_NOT_FOUND"))]
              ELSE /\ req' = [req EXCEPT ![r] = [r0 EXCEPT !.doc = LoadDoc(a.oid, FALSE)]]
                   /\ pc' = [pc EXCEPT ![r] = "delete_save"]
                   /\ resp' = [resp EXCEPT ![r] = NoResp]
    /\ pre' = Snapshot
    /\ Admit
    /\ UNCHANGED <<store, now, mode, probe, deact, created>>

\* isActive = false, save() and the response (lines 222-240).
\* Mutant of Deactivate: the record is removed from the store.
Deactivate_HardDelete(s, id) == SubSeq(s, 1, id - 1) \o SubSeq(s, id + 1, Len(s))

\* integration.isActive = false; integration.save()
Deactivate(s, id) == [s EXCEPT ![id].isActive = FALSE]

DeleteSave(r) ==
    /\ pc[r] = "delete_save"
    /\ \E saveOk \in BOOLEAN :
          LET id == req[r].doc.id
          IN  IF ~saveOk
              THEN /\ resp' = [resp EXCEPT ![r] = errorHandler(RawError("MongoError", "write failed"))]
                   /\ UNCHANGED <<store, deact, created>>
              ELSE /\ store' = Deactivate(store, id)
                   /\ resp' = [resp EXCEPT ![r] =
                                 Success(200, [message |-> "Integration deactivated successfully"])]
                   /\ deact' = deact \cup {id}
                   /\ created' = [p \in Providers |-> IF created[p] = id THEN 0 ELSE created[p]]
    /\ pc' = [pc EXCEPT ![r] = "done"]
    /\ UNCHANGED <<now, mode, probe, admitted, req, pre>>

(* ------------------ POST /esp/:id/test: testIntegration ---------------- *)

\* The response body of testIntegration (lines 269-281).
TestResponse(vr, doc) ==
    [isValid |-> vr.isValid, provider |-> vr.provider, error |-> vr.error,
     accountInfo |-> vr.accountInfo, lastVerified |-> doc.lastVerified]

\* Mutant of TestMissing: the isActive check is missing.
TestMissing_NoActiveCheck(a) == a.oid \notin Ids

\* if (!integration || !integration.isActive) (line 248), for a well-formed id.
TestMissing(a) == a.oid \notin Ids \/ ~store[a.oid].isActive

\* findById(id).select('+apiKey'), the missing-or-inactive check, the adapter
\* and validateConnection; an invalid outcome is answered without a save
\* (lines 245-264, 269-283).
TestFind(r) ==
    /\ CanStart(r)
    /\ \E a \in IdArgs, out \in OutcomesOf(mode) :
          LET r0 == [EmptyReq EXCEPT !.op = "test", !.idArg = a, !.deactAtStart = deact]
          IN  IF ~a.wf
              THEN /\ req' = [req EXCEPT ![r] = r0]
                   /\ pc' = [pc EXCEPT ![r] = "done"]
                   /\ resp' = [resp EXCEPT ![r] =
                                 errorHandler(RawError("CastError", "Cast to ObjectId failed"))]
              ELSE IF TestMissing(a)
              THEN /\ req' = [req EXCEPT ![r] = r0]
                   /\ pc' = [pc EXCEPT ![r] = "done"]
                   /\ resp' = [resp EXCEPT ![r] = errorHandler(
                         AppError("Integration not found or inactive", 404,
                                  "INTEGRATION_NOT_FOUND"))]
              ELSE LET doc == LoadDoc(a.oid, TRUE)
                       svc == createService(doc.provider, doc.apiKey, doc.dataCenter)
                       vr == validateConnection(doc.provider, out)
                       r1 == [r0 EXCEPT !.doc = doc, !.adapters = 1]
                       r2 == [r1 EXCEPT !.vr = vr,
                                        !.calls = {Call(doc.id, doc.provider, doc.apiKey)}]
                   IN  IF ~svc.ok
                       THEN /\ req' = [req EXCEPT ![r] = r1]
                            /\ pc' = [pc EXCEPT ![r] = "done"]
                            /\ resp' = [resp EXCEPT ![r] = errorHandler(svc.err)]
                       ELSE IF ~vr.isValid
                       THEN /\ req' = [req EXCEPT ![r] = r2]
                            /\ pc' = [pc EXCEPT ![r] = "done"]
                            /\ resp' = [resp EXCEPT ![r] = Success(200, TestResponse(vr, doc))]
                       ELSE /\ req' = [req EXCEPT ![r] = r2]
                            /\ pc' = [pc EXCEPT ![r] = "test_save"]
                            /\ resp' = [resp EXCEPT ![r] = NoResp]
    /\ pre' = Snapshot
    /\ Admit
    /\ UNCHANGED <<store, now, mode, probe, deact, created>>

\* lastVerified = new Date(), save() and the response (lines 264-283).
TestSave(r) ==
    /\ pc[r] = "test_save"
    /\ \E saveOk \in BOOLEAN :
          LET q == req[r]
              doc == [q.doc EXCEPT !.lastVerified = now]
          IN  IF ~saveOk
              THEN /\ resp' = [resp EXCEPT ![r] = errorHandler(RawError("MongoError", "write failed"))]
                   /\ UNCHANGED store
              ELSE /\ store' = [store EXCEPT ![doc.id].lastVerified = doc.lastVerified]
                   /\ resp' = [resp EXCEPT ![r] = Success(200, TestResponse(q.vr, doc))]
    /\ pc' = [pc EXCEPT ![r] = "done"]
    /\ UNCHANGED <<now, mode, probe, admitted, req, pre, deact, created>>

(* --------------------------- specifications ---------------------------- *)

Next ==
    \/ Tick
    \/ \E r \in Slots :
          \/ CreateValidate(r)
          \/ CreateFind(r)
          \/ CreateSave(r)
          \/ ListsFind(r)
          \/ ListsFetch(r)
          \/ GetIntegrations(r)
          \/ DeleteFind(r)
          \/ DeleteSave(r)
          \/ TestFind(r)
          \/ TestSave(r)
          \/ Finish(r)

\* Requests run one at a time, each to completion.
Spec == Init /\ [][Next]_vars

\* Requests interleave at their awaits.
ConcSpec == ConcInit /\ [][Next]_vars

(* ------------- the adapters and the factory on their own --------------- *)

\* The statuses of the non-2xx responses tried on the adapters.
ErrorStatuses == {400, 401, 403, 404, 408, 429, 500, 502, 503}

\* Every upstream outcome tried on the adapters.
ProbeOutcomes ==
    {Upstream("ok", 200, ""), Upstream("okNull", 200, ""),
     Upstream("timeout", 0, ""), Upstream("noresponse", 0, "")}
        \cup {Upstream("status", st, m) : st \in ErrorStatuses, m \in {"", "upstream message"}}

\* The numbers of lists of the upstream account, around the cap of one request.
ProbeCounts == {0, 1, MailchimpMaxCount, MailchimpMaxCount + 1}

\* The keys tried on extractDataCenterFromMailchimpKey.
ProbeKeys ==
    (SampleKeys \ {Null})
        \cup {Hex32, <<>>, <<"-">>, <<"-", "-">>, <<"u", "s", "1", "-">>,
              Hex32 \o <<"-", "-", "u", "s", "1">>}

PureInit == InitWith("pure")

\* handleApiError of both adapters on a failed request.
ProbeHandleApiError ==
    \E out \in ProbeOutcomes :
        /\ probe = NoProbe
        /\ out.kind \notin {"ok", "okNull"}
        /\ UNCHANGED <<store, now, mode, admitted, pc, req, resp, pre, deact, created>>
        /\ probe' = [fn |-> "handleApiError", out |-> out,
                     mailchimp |-> handleApiError("mailchimp", out),
                     getresponse |-> handleApiError("getresponse", out)]

ProbeValidateConnection ==
    \E p \in Providers, out \in ProbeOutcomes :
        /\ probe = NoProbe
        /\ UNCHANGED <<store, now, mode, admitted, pc, req, resp, pre, deact, created>>
        /\ probe' = [fn |-> "validateConnection", provider |-> p, out |-> out,
                     vr |-> validateConnection(p, out)]

ProbeGetLists ==
    \E p \in Providers, out1 \in ProbeOutcomes, out2 \in ProbeOutcomes, n \in ProbeCounts :
        LET res == getLists(p, out1, out2, n)
        IN  /\ probe = NoProbe
            /\ UNCHANGED <<store, now, mode, admitted, pc, req, resp, pre, deact, created>>
            /\ probe' = [fn |-> "getLists", provider |-> p, out1 |-> out1, out2 |-> out2,
                         n |-> n, ok |-> res.ok, err |-> res.err,
                         count |-> Len(res.lists)]

ProbeGetListById ==
    \E p \in Providers, out \in ProbeOutcomes :
        LET res == getListById(p, out)
        IN  /\ probe = NoProbe
            /\ UNCHANGED <<store, now, mode, admitted, pc, req, resp, pre, deact, created>>
            /\ probe' = [fn |-> "getListById", provider |-> p, out |-> out,
                         ok |-> res.ok, err |-> res.err]

ProbeExtractDataCenter ==
    \E k \in ProbeKeys :
        /\ probe = NoProbe
        /\ UNCHANGED <<store, now, mode, admitted, pc, req, resp, pre, deact, created>>
        /\ probe' = [fn |-> "extractDataCenter", key |-> k,
                     result |-> extractDataCenterFromMailchimpKey(k)]

PureNext ==
    \/ ProbeHandleApiError
    \/ ProbeValidateConnection
    \/ ProbeGetLists
    \/ ProbeGetListById
    \/ ProbeExtractDataCenter

\* The pure functions of the adapters and of the factory, applied to every
\* input of the sets above.
PureSpec == PureInit /\ [][PureNext]_vars

TypeOK ==
    /\ Len(store) <= MaxRecords
    /\ now \in 1..MaxClock
    /\ \A r \in Slots : pc[r] \in {"idle", "create_find", "create_save", "lists_fetch",
                                   "delete_save", "test_save", "done"}

(* ------------------------------- claims -------------------------------- *)

\* A create-or-update request that was answered with success.
CreateSucceeded(r) == pc[r] = "done" /\ req[r].op = "create" /\ resp[r].success

\* The store the request found held an active record of provider p.
HadActive(p) == \E i \in 1..Len(pre) : pre[i].isActive /\ pre[i].provider = p

\* C1: with requests running one at a time, the store never holds two
\* records with isActive = TRUE for the same provider.
C1_OneActivePerProvider ==
    \A i, j \in 1..Len(store) :
        (store[i].isActive /\ store[j].isActive /\ store[i].provider = store[j].provider)
            => i = j

\* A provider was created, deactivated and created again.
C1_Witness ==
    \E i, j \in 1..Len(store) :
        /\ store[i].provider = store[j].provider
        /\ ~store[i].isActive
        /\ store[j].isActive
        /\ \E r \in Slots : CreateSucceeded(r) /\ resp[r].data.id = j

\* C2: with interleaving requests the lookup and the save still act as one
\* atomic upsert: no provider has two active records.
C2_AtomicUpsert ==
    \A p \in Providers :
        Cardinality({i \in 1..Len(store) : store[i].isActive /\ store[i].provider = p}) <= 1

\* C3: a successful create-or-update for a provider without active record
\* adds exactly one record, active and verified; a second successful one for
\* the same provider, no deactivate in between, adds none and modifies the
\* record of the same id.
C3_CreateThenUpdate ==
    \A r \in Slots :
        CreateSucceeded(r) =>
            LET q == req[r]
                n == Len(store)
            IN  /\ ~HadActive(q.provider) =>
                      /\ n = Len(pre) + 1
                      /\ SubSeq(store, 1, Len(pre)) = pre
                      /\ store[n].provider = q.provider
                      /\ store[n].isActive
                      /\ store[n].lastVerified # Unset
                      /\ resp[r].data.id = n
                /\ q.prevCreated # 0 =>
                      /\ n = Len(pre)
                      /\ resp[r].data.id = q.prevCreated
                      /\ store[q.prevCreated].apiKey = q.apiKey
                      /\ store[q.prevCreated].lastVerified = resp[r].data.lastVerified
                      /\ \A i \in 1..n : i # q.prevCreated => store[i] = pre[i]

\* A second create-or-update of a provider succeeded, with another key.
C3_Witness ==
    \E r \in Slots :
        /\ CreateSucceeded(r)
        /\ req[r].prevCreated # 0
        /\ pre[req[r].prevCreated].apiKey # req[r].apiKey

\* C4: a successful create-or-update answers 201 exactly when it inserted a
\* record and 200 exactly when it overwrote the active record of the provider.
C4_StatusTellsCreatedFromUpdated ==
    \A r \in Slots :
        CreateSucceeded(r) =>
            LET q == req[r]
                inserted == Len(store) = Len(pre) + 1
                overwrote ==
                    /\ Len(store) = Len(pre)
                    /\ \E i \in 1..Len(pre) :
                          /\ pre[i].isActive /\ pre[i].provider = q.provider
                          /\ resp[r].data.id = i
                          /\ store[i].apiKey = q.apiKey
            IN  /\ resp[r].status = 201 <=> inserted
                /\ resp[r].status = 200 <=> overwrote

\* An update was answered 200.
C4_Witness ==
    \E r \in Slots : CreateSucceeded(r) /\ resp[r].status = 200 /\ Len(store) = Len(pre)

\* The request was turned down as a validation error before any adapter
\* was built, and the store is as the request found it.
Rejected(r) ==
    /\ pc[r] = "done"
    /\ ~resp[r].success
    /\ resp[r].status = 400
    /\ resp[r].code \in {"VALIDATION_ERROR", "INVALID_MAILCHIMP_KEY", "INVALID_API_KEY_FORMAT"}
    /\ req[r].adapters = 0
    /\ req[r].calls = {}
    /\ store = pre

\* validateApiKeyFormat is false for the key, or it is a mailchimp key without
\* extractable data center (or there is no key at all).
InvalidKey(p, k) ==
    \/ k = Null
    \/ ~validateApiKeyFormat(p, k)
    \/ p = "mailchimp" /\ extractDataCenterFromMailchimpKey(k) = Null

\* C5 as stated: every submitted key that validateApiKeyFormat refuses (and
\* every mailchimp key without data center) is answered 400, with no adapter,
\* no outbound call and no change of the store.
C5_Original ==
    \A r \in Slots :
        (req[r].op = "create" /\ InvalidKey(req[r].provider, req[r].rawKey)) => Rejected(r)

\* C5, amended: every submitted key that, with surrounding whitespace trimmed,
\* validateApiKeyFormat refuses (and every mailchimp key without data center)
\* is answered 400, with no adapter, no outbound call and no change of the store.
C5_InvalidKeyRejected ==
    \A r \in Slots :
        (/\ req[r].op = "create"
         /\ InvalidKey(req[r].provider,
                       IF req[r].rawKey = Null THEN Null ELSE Trim(req[r].rawKey)))
            => Rejected(r)

\* The controller refused a key that passed the request validation, with
\* records in the store.
C5_Witness ==
    \E r \in Slots :
        /\ req[r].op = "create"
        /\ Rejected(r)
        /\ resp[r].code = "INVALID_API_KEY_FORMAT"
        /\ Len(store) > 0

\* C6: when validateConnection answers isValid = FALSE, create-or-update
\* fails with 401 and the store is exactly as the request found it.
C6_InvalidConnectionPersistsNothing ==
    \A r \in Slots :
        (req[r].op = "create" /\ req[r].calls # {} /\ ~req[r].vr.isValid) =>
            /\ pc[r] = "done"
            /\ ~resp[r].success
            /\ resp[r].status = 401
            /\ resp[r].code = "ESP_CONNECTION_FAILED"
            /\ store = pre

\* The connection failed for a provider whose active record holds another key.
C6_Witness ==
    \E r \in Slots :
        /\ req[r].op = "create" /\ pc[r] = "done" /\ resp[r].status = 401
        /\ \E i \in 1..Len(store) :
              /\ store[i].isActive /\ store[i].provider = req[r].provider
              /\ store[i].apiKey # req[r].apiKey

\* C7: a record whose deactivation succeeded has isActive = FALSE, and no
\* listing or aggregate fetch that starts afterwards returns it or calls the
\* provider for it.
C7_DeactivatedStaysExcluded ==
    /\ \A i \in deact : ~store[i].isActive
    /\ \A r \in Slots :
          LET q == req[r]
          IN  /\ (q.op = "list" /\ pc[r] = "done") =>
                    \A j \in 1..Len(resp[r].data.integrations) :
                        resp[r].data.integrations[j].id \notin q.deactAtStart
              /\ q.op = "lists" =>
                    /\ \A c \in q.calls : c.id \notin q.deactAtStart
                    /\ \A j \in 1..Len(q.found) : q.found[j].id \notin q.deactAtStart
                    /\ (pc[r] = "done" /\ resp[r].success) =>
                          \A j \in 1..Len(resp[r].data.lists) :
                              resp[r].data.lists[j].integrationId \notin q.deactAtStart

\* An aggregate fetch succeeded after a deactivation.
C7_Witness ==
    \E r \in Slots :
        /\ req[r].op = "lists" /\ pc[r] = "done" /\ resp[r].success
        /\ req[r].deactAtStart # {}
        /\ req[r].calls # {}

\* C8: an aggregate fetch over a non-empty set of integrations succeeds
\* whichever of them fail; a failing one contributes exactly one error marker
\* with its provider and id, a non-failing one all its lists, each tagged with
\* its provider and id.
C8_PartialFailure ==
    \A r \in Slots :
        (req[r].op = "lists" /\ pc[r] = "done" /\ Len(req[r].found) > 0) =>
            LET q == req[r]
                L == resp[r].data.lists
            IN  /\ resp[r].success
                /\ resp[r].status = 200
                /\ Len(q.outs) = Len(q.found)
                /\ \A k \in 1..Len(L) : \E j \in 1..Len(q.found) : L[k].integrationId = q.found[j].id
                /\ \A j \in 1..Len(q.found) :
                      LET d == q.found[j]
                          mine == {k \in 1..Len(L) : L[k].integrationId = d.id}
                      IN  IF ~q.outs[j].ok
                          THEN /\ Cardinality(mine) = 1
                               /\ \A k \in mine : L[k].error # "" /\ L[k].provider = d.provider
                          ELSE /\ Cardinality(mine) = q.outs[j].n
                               /\ \A k \in mine : L[k].error = "" /\ L[k].provider = d.provider
                               /\ {L[k].id : k \in mine} = 1..q.outs[j].n

\* Of two integrations one failed and the other returned a list.
C8_Witness ==
    \E r \in Slots :
        /\ req[r].op = "lists" /\ pc[r] = "done"
        /\ \E j, k \in 1..Len(req[r].outs) :
              ~req[r].outs[j].ok /\ req[r].outs[k].ok /\ req[r].outs[k].n > 0

\* The id names no active record of the store the request found.
NoActiveRecord(a) == ~a.wf \/ a.oid \notin 1..Len(pre) \/ ~pre[a.oid].isActive

\* C9 as stated: re-testing an id without record, or of an inactive record,
\* fails with 404, calls no provider and leaves the store unchanged.
C9_Original ==
    \A r \in Slots :
        (req[r].op = "test" /\ NoActiveRecord(req[r].idArg)) =>
            /\ pc[r] = "done"
            /\ ~resp[r].success
            /\ resp[r].status = 404
            /\ req[r].calls = {}
            /\ store = pre

\* C9, amended: re-testing a well-formed id without record, or of an inactive
\* record, fails with 404 and an id that is no ObjectId with 400 INVALID_ID;
\* either way no provider is called and the store is unchanged.
C9_RetestMissing ==
    \A r \in Slots :
        (req[r].op = "test" /\ NoActiveRecord(req[r].idArg)) =>
            /\ pc[r] = "done"
            /\ ~resp[r].success
            /\ IF req[r].idArg.wf
               THEN resp[r].status = 404 /\ resp[r].code = "INTEGRATION_NOT_FOUND"
               ELSE resp[r].status = 400 /\ resp[r].code = "INVALID_ID"
            /\ req[r].adapters = 0
            /\ req[r].calls = {}
            /\ store = pre

\* A deactivated record was re-tested.
C9_Witness ==
    \E r \in Slots :
        /\ req[r].op = "test" /\ pc[r] = "done" /\ req[r].idArg.wf
        /\ req[r].idArg.oid \in 1..Len(store)
        /\ ~store[req[r].idArg.oid].isActive
        /\ resp[r].status = 404

\* C10: re-testing an active integration returns the validation outcome
\* whether or not the save of lastVerified succeeded.
C10_OutcomeAlwaysReturned ==
    \A r \in Slots :
        (req[r].op = "test" /\ pc[r] = "done" /\ req[r].calls # {}) =>
            /\ resp[r].success
            /\ resp[r].data.isValid = req[r].vr.isValid

(* ------------------------- claims on the adapters ----------------------- *)

\* The error kind an adapter's provider-tagged error code stands for.
Kind(code) ==
    CASE code \in {"MAILCHIMP_UNAUTHORIZED", "GETRESPONSE_UNAUTHORIZED"} -> "Unauthorized"
      [] code \in {"MAILCHIMP_NOT_FOUND", "GETRESPONSE_NOT_FOUND"} -> "NotFound"
      [] code \in {"MAILCHIMP_RATE_LIMIT", "GETRESPONSE_RATE_LIMIT"} -> "RateLimited"
      [] code \in {"MAILCHIMP_TIMEOUT", "GETRESPONSE_TIMEOUT"} -> "Timeout"
      [] code \in {"MAILCHIMP_SERVICE_ERROR", "GETRESPONSE_SERVICE_ERROR"} ->
            "ServiceUnavailable"
      [] code \in {"MAILCHIMP_API_ERROR", "GETRESPONSE_API_ERROR"} -> "ProviderError"
      [] code = "GETRESPONSE_BAD_REQUEST" -> "BadRequest"
      [] OTHER -> "Unclassified"

\* The kind the translation table gives for a failed request.
TableKind(out) ==
    CASE out.kind = "timeout" -> "Timeout"
      [] out.kind = "noresponse" -> "ServiceUnavailable"
      [] out.kind = "status" /\ out.status = 401 -> "Unauthorized"
      [] out.kind = "status" /\ out.status = 404 -> "NotFound"
      [] out.kind = "status" /\ out.status = 429 -> "RateLimited"
      [] OTHER -> "ProviderError"

\* An error follows the table: it has the table's kind, and a ProviderError
\* carries the upstream status.
FollowsTable(err, out) ==
    /\ err.name = "AppError"
    /\ Kind(err.code) = TableKind(out)
    /\ TableKind(out) = "ProviderError" => err.statusCode = out.status

\* C11 as stated: both adapters translate every failed request by the one
\* table (401 Unauthorized, 404 NotFound, 429 RateLimited, timeout Timeout,
\* no response ServiceUnavailable, any other status ProviderError with that
\* status), and the same outcome gives the same kind in both adapters.
C11_Original ==
    probe.fn = "handleApiError" =>
        /\ FollowsTable(probe.mailchimp, probe.out)
        /\ FollowsTable(probe.getresponse, probe.out)
        /\ Kind(probe.mailchimp.code) = Kind(probe.getresponse.code)

\* C11: the Mailchimp adapter translates every failed request by the table;
\* the GetResponse adapter does so for every outcome but a response of status
\* 400, for which it gives a BadRequest kind of its own with status 400; for
\* every outcome other than status 400 both adapters give the same kind.
C11_SameTableBut400 ==
    probe.fn = "handleApiError" =>
        /\ FollowsTable(probe.mailchimp, probe.out)
        /\ IF probe.out.kind = "status" /\ probe.out.status = 400
           THEN /\ probe.getresponse.name = "AppError"
                /\ Kind(probe.getresponse.code) = "BadRequest"
                /\ probe.getresponse.statusCode = 400
           ELSE /\ FollowsTable(probe.getresponse, probe.out)
                /\ Kind(probe.mailchimp.code) = Kind(probe.getresponse.code)

\* Both adapters have translated a response of status 400.
C11_Witness ==
    /\ probe.fn = "handleApiError"
    /\ probe.out.kind = "status" /\ probe.out.status = 400
    /\ probe.mailchimp.code = "MAILCHIMP_API_ERROR"
    /\ probe.getresponse.code = "GETRESPONSE_BAD_REQUEST"

\* C12: validateConnection of either adapter always returns a result of the
\* adapter's provider: valid with no error when the upstream request
\* succeeds, invalid with a non-empty error text for every other outcome.
C12_ValidateConnectionNeverRaises ==
    probe.fn = "validateConnection" =>
        /\ probe.vr.provider = probe.provider
        /\ IF probe.out.kind = "ok"
           THEN probe.vr.isValid /\ probe.vr.error = ""
           ELSE ~probe.vr.isValid /\ probe.vr.error # ""

\* validateConnection has answered a request that got no typed error: the
\* body of the 2xx response was null.
C12_Witness ==
    /\ probe.fn = "validateConnection"
    /\ probe.out.kind = "okNull"
    /\ ~probe.vr.isValid
    /\ probe.vr.error = "Connection validation failed"

\* C13: a successful getLists returns one entry for each of the N lists of
\* the upstream account, also when N exceeds what one request may ask for.
C13_CompleteCollection ==
    (probe.fn = "getLists" /\ probe.ok) => probe.count = probe.n

(* ------------------------ claims on the responses ----------------------- *)

\* The raw keys in play: those of the stored records and those submitted by
\* the requests in flight, as sent and as trimmed by the validation.
RawKeys ==
    ({store[i].apiKey : i \in 1..Len(store)}
        \cup {req[r].rawKey : r \in Slots}
        \cup {req[r].apiKey : r \in Slots}) \ {Null}

\* The key-like texts a serialized object carries.
RecordTexts(rec) == {rec[f] : f \in DOMAIN rec \cap {"apiKey", "dataCenter"}}

\* The key-like texts of the response sent for request slot r.
ResponseTexts(r) ==
    LET d == resp[r].data
    IN  CASE ~resp[r].success -> {}
          [] req[r].op = "list" ->
                UNION {RecordTexts(d.integrations[j]) : j \in 1..Len(d.integrations)}
          [] req[r].op = "lists" ->
                UNION {RecordTexts(d.lists[j]) : j \in 1..Len(d.lists)}
          [] OTHER -> RecordTexts(d)

\* C14: no response of any endpoint, success or error envelope, contains the
\* raw API key of a stored record or of a request.
C14_NoKeyInResponse ==
    \A r \in Slots : pc[r] = "done" => ResponseTexts(r) \cap RawKeys = {}

\* A create-or-update has answered with the serialized record while the
\* store holds that record's key.
C14_Witness ==
    \E r \in Slots :
        /\ pc[r] = "done" /\ req[r].op = "create" /\ resp[r].success
        /\ store[resp[r].data.id].apiKey = req[r].apiKey
        /\ req[r].apiKey \in RawKeys
        /\ resp[r].data.dataCenter \in ResponseTexts(r)

(* ------------------------- claims on the factory ------------------------ *)

\* The number of '-' separators of a key.
DashCount(k) == Cardinality({i \in 1..Len(k) : k[i] = "-"})

\* A key of the form <32-hex>-<region>.
HexDashRegion(k) ==
    /\ Len(k) > HexLen
    /\ \A i \in 1..HexLen : k[i] \in HexChars
    /\ k[HexLen + 1] = "-"
    /\ \A i \in (HexLen + 2)..Len(k) : k[i] # "-"

\* C15: extractDataCenterFromMailchimpKey returns the region of every key of
\* the form <32-hex>-<region>, and null for every key that has no separator
\* or more than one.
C15_ExtractRegion ==
    probe.fn = "extractDataCenter" =>
        /\ HexDashRegion(probe.key) =>
              probe.result = SubSeq(probe.key, HexLen + 2, Len(probe.key))
        /\ DashCount(probe.key) # 1 => probe.result = Null

\* The region of a well-formed key has been extracted.
C15_Witness ==
    /\ probe.fn = "extractDataCenter"
    /\ HexDashRegion(probe.key)
    /\ probe.result = <<"u", "s", "1", "0">>

(* ------------------------ claims on the endpoints ----------------------- *)

\* C16: a create request whose provider is missing or is none of mailchimp
\* and getresponse is answered 400 VALIDATION_ERROR by the request
\* validation: no adapter is built, no provider call is made and the store
\* is left as it was.
C16_BadProviderRejected ==
    \A r \in Slots :
        (req[r].op = "create" /\ req[r].provider \notin {"mailchimp", "getresponse"}) =>
            /\ pc[r] = "done"
            /\ ~resp[r].success
            /\ resp[r].status = 400
            /\ resp[r].code = "VALIDATION_ERROR"
            /\ req[r].adapters = 0
            /\ req[r].calls = {}
            /\ store = pre

\* A request without provider but with a well-formed key has been rejected
\* while the store holds a record.
C16_Witness ==
    \E r \in Slots :
        /\ pc[r] = "done" /\ req[r].op = "create"
        /\ req[r].provider = "undefined"
        /\ req[r].rawKey = KeyMcA
        /\ resp[r].code = "VALIDATION_ERROR"
        /\ Len(store) > 0

\* The active records an aggregate list fetch for provider p selects
\* ("undefined": no provider asked for).
FilteredActive(p) ==
    {i \in 1..Len(store) : store[i].isActive /\ (p = "undefined" \/ store[i].provider = p)}

\* C17: an aggregate list fetch that selects no active record, with or
\* without a provider asked for, fails with 404 NO_INTEGRATIONS and makes no
\* outbound call; it is never answered with a success.
C17_NoIntegrations ==
    \A r \in Slots :
        (/\ req[r].op = "lists"
         /\ req[r].provider \in Providers \cup {"undefined"}
         /\ FilteredActive(req[r].provider) = {}) =>
            /\ pc[r] = "done"
            /\ ~resp[r].success
            /\ resp[r].status = 404
            /\ resp[r].code = "NO_INTEGRATIONS"
            /\ req[r].calls = {}

\* A fetch for one provider has failed for lack of an active record of that
\* provider while the store holds an active record of the other provider.
C17_Witness ==
    \E r \in Slots :
        /\ pc[r] = "done" /\ req[r].op = "lists"
        /\ req[r].provider \in Providers
        /\ resp[r].code = "NO_INTEGRATIONS"
        /\ \E i \in 1..Len(store) : store[i].isActive /\ store[i].provider # req[r].provider

\* The error kinds the adapters name.
NamedKinds ==
    {"Unauthorized", "NotFound", "RateLimited", "Timeout", "ServiceUnavailable",
     "ProviderError", "BadRequest"}

\* C18: every getLists and getListById of either adapter ends in a success
\* or in a typed error of a named kind, for every upstream outcome, a 2xx
\* response whose body lacks the expected fields included.
C18_NoRawFailureEscapes ==
    probe.fn \in {"getLists", "getListById"} =>
        \/ probe.ok
        \/ probe.err.name = "AppError" /\ Kind(probe.err.code) \in NamedKinds

DeactivatedOnly(p) ==
    /\ \E i \in deact : store[i].provider = p
    /\ \A i \in 1..Len(store) : store[i].provider = p => ~store[i].isActive

\* C20: a record goes from absent to active to inactive and takes no other
\* step: no operation removes a record or changes its provider, a new record
\* starts active, an inactive record stays inactive, and a successful
\* create-or-update for a provider whose record was deactivated inserts a
\* record with a new id and answers 201.
C20_Lifecycle ==
    [][/\ Len(store') >= Len(store)
       /\ \A i \in 1..Len(store) :
             /\ store'[i].provider = store[i].provider
             /\ ~store[i].isActive => ~store'[i].isActive
       /\ \A i \in (Len(store) + 1)..Len(store') : store'[i].isActive
       /\ \A r \in Slots :
             (/\ pc[r] = "create_save" /\ pc'[r] = "done" /\ resp'[r].success
              /\ DeactivatedOnly(req[r].provider)) =>
                 /\ resp'[r].status = 201
                 /\ Len(store') = Len(store) + 1
                 /\ resp'[r].data.id = Len(store')
                 /\ store'[Len(store')].isActive
                 /\ store'[Len(store')].provider = req[r].provider]_vars

\* A create-or-update after a deactivation has been answered 201 with the
\* id of a new record, the deactivated record being still in the store.
C20_Witness ==
    \E r \in Slots, i \in deact :
        /\ CreateSucceeded(r) /\ resp[r].status = 201
        /\ store[i].provider = req[r].provider
        /\ ~store[i].isActive
        /\ resp[r].data.id > i
        /\ store[resp[r].data.id].isActive

(* ----------------------- claims on interleavings ------------------------ *)

\* The store holds an active record of provider p with key k.
HoldsActive(s, p, k) ==
    \E i \in 1..Len(s) : s[i].isActive /\ s[i].provider = p /\ s[i].apiKey = k

\* C21: whenever a create-or-update answers 200 with isActive=true, also
\* when a deactivation of the provider's active record was saved between its
\* lookup and its save, the store it leaves holds an active record of that
\* provider with the submitted key.
C21_ReportedActiveIsStored ==
    [][\A r \in Slots :
          (/\ pc[r] = "create_save" /\ pc'[r] = "done"
           /\ resp'[r].success
           /\ resp'[r].status = 200
           /\ resp'[r].data.isActive) =>
              HoldsActive(store', req[r].provider, req[r].apiKey)]_vars

====
